---- MODULE Spec2Model ----
(***************************************************************************)
(* recass: the transcription pipeline.  The audio callbacks put chunks on  *)
(* a queue (AudioRecorder._process_data), one Transcriber thread consumes  *)
(* them (Transcriber.run), and the control thread and the reprocess thread *)
(* call Transcriber.transcribe_recording_file on the same Transcriber.     *)
(*                                                                         *)
(* An engine call (whisper's model.transcribe, the pyannote pipeline) is   *)
(* two steps: the call is entered (pc[t] names the call site) and it       *)
(* returns or raises (the End... actions choose the outcome).  Everything  *)
(* the code does between two engine calls is part of the step that ends    *)
(* the first.                                                              *)
(***************************************************************************)
EXTENDS Integers, Sequences, FiniteSets, TLC

VARIABLES
    queue,              \* queue.Queue shared by AudioRecorder and Transcriber
    unfinished_tasks,   \* queue.Queue.unfinished_tasks: puts minus task_done calls
    produced,           \* number of chunks put so far
    stop_event,         \* Transcriber.stop_event
    recording_enabled,  \* Transcriber.recording_enabled
    is_recording,       \* Application.is_recording
    modelDev,           \* device of the whisper model
    diarDev,            \* device of the diarization pipeline, "none" without one
    moved,              \* the engines the out-of-memory handler has moved to the CPU
    text_callback,      \* Transcriber.text_callback
    pc,                 \* per thread: where it is
    job,                \* per thread: the audio it is processing
    calldev,            \* per thread: device its engine call in flight runs on
    saved,              \* per thread: original_callback of transcribe_recording_file
    files,              \* number of transcribe_recording_file calls so far
    gate,               \* consumer: recording_enabled as read for the dequeued chunk
    trace,              \* consumer: chunk-level engine calls and callbacks of the chunk
    segtr,              \* consumer: engine calls and callbacks of the current segment
    res,                \* consumer: per visited segment of the chunk, what came of it
    samplerate,         \* AudioRecorder.mic_samplerate, loopback_samplerate (0: None)
    buffer_list,        \* AudioRecorder.mic_buffer, loopback_buffer
    buffer_size,        \* AudioRecorder.mic_buffer_size, loopback_buffer_size
    file_buffer,        \* AudioRecorder.mic_file_buffer, loopback_file_buffer
    is_writing_audio,   \* AudioRecorder.is_writing_audio
    lock,               \* AudioRecorder.lock: "free" or the thread that holds it
    delivered,          \* per source: samples its stream has delivered so far
    nblocks,            \* per source: driver callbacks so far
    writes,             \* start_audio_file_writing calls so far
    taken,              \* the chunks the consumer has dequeued, in order
    mixed_audio_path,   \* AudioRecorder.mixed_audio_path ("none": None)
    buffer_copy,        \* mic_buffer_copy, loopback_buffer_copy of the last stop
    stopped,            \* the last stop_audio_file_writing: what it returned
    mixed,              \* the channels of the audio file as last saved
    startpos,           \* per source: samples delivered at the last start of writing
    armed,              \* the last call of the control thread started the writing
    window,             \* per source: the samples between that start and the stop
    loopback_silence_warning_shown,  \* AudioRecorder's flag of that name
    warned,             \* the silence diagnostics printed so far
    escaped,            \* the exceptions that have left a driver callback
    app_recorder,       \* Application.recorder and .transcriber (0: None)
    streams,            \* per recorder: its mic_stream and loopback_stream
    leaked,             \* per recorder: running streams it no longer refers to
    failed_start,       \* the recorders whose start_recording has raised
    consumer,           \* per session: its Transcriber thread
    loop,               \* per session: its _run_audio_processing_loop thread
    loopref,            \* per session's loop thread: self.recorder as it read it
    output_file,        \* per caller of transcribe_recording_file: its output_file
    exited,             \* per caller: text_callback at its return against the one found
    assign,             \* _run_audio_processing_loop: where its first statement is
    starter,            \* who called the _start_file_recording in progress
    timer_enabled,      \* TimerManager.timer_enabled
    remaining_seconds,  \* TimerManager.remaining_seconds
    countdown,          \* per countdown thread: where it is in _countdown
    pending,            \* calls of _on_record_button_clicked queued by idle_add
    started_by_timer    \* a queued call has set is_recording

vars == <<queue, unfinished_tasks, produced, stop_event, recording_enabled,
          is_recording, modelDev, diarDev, moved, text_callback, pc, job, calldev,
          saved, files, gate, trace,
          segtr, res, samplerate, buffer_list, buffer_size, file_buffer,
          is_writing_audio, lock, delivered, nblocks, writes, taken,
          mixed_audio_path, buffer_copy, stopped, mixed, startpos, armed, window,
          loopback_silence_warning_shown, warned, escaped,
          app_recorder, streams, leaked, failed_start, consumer, loop, loopref,
          output_file, exited, assign, starter, timer_enabled, remaining_seconds,
          countdown, pending, started_by_timer>>

(***************************************************************************)
(* Bounds of the model.                                                    *)
(***************************************************************************)
MaxChunks == 2      \* chunks the recorder puts in one behaviour
MaxSegs == 2        \* segments one diarizer call returns
MaxFiles == 1       \* transcribe_recording_file calls in one behaviour
MaxChunksT == 1     \* chunks put in one behaviour of SpecThreads
MaxSegsT == 1       \* segments of one diarizer call in SpecThreads
MaxBlocks == 2      \* driver callbacks of one source in one behaviour
MaxWrites == 1      \* start_audio_file_writing calls in one behaviour
MaxSessions == 2    \* recording sessions started in one behaviour
MaxTimers == 2      \* countdown threads alive at one time
MaxSeconds == 1     \* the configured duration of the timer
MaxPending == 2     \* queued calls of _on_record_button_clicked not yet run

(***************************************************************************)
(* Program constants.  Amplitudes are in units of 1/10000 of full scale.   *)
(***************************************************************************)
WHISPER_SAMPLE_RATE == 16000
CHUNK_SECONDS == 15
SilenceThreshold == 10          \* 0.001
QueueMaxsize == 0               \* queue.Queue(): no capacity bound
BlockSize == 1024               \* blocksize of the input streams
MIX_SAMPLE_RATE == 48000
SilenceFloor == 100             \* mean absolute amplitude below which loopback is quiet

Consumer == "consumer"
Control == "control"
Reproc == "reprocess"
Threads == {Consumer, Control, Reproc}
FileThreads == {Control, Reproc}

Sessions == 1..MaxSessions
Sources == {"MIC", "LOOPBACK"}
Amps == {<<0, 14>>, <<10, 10>>}
Chunks == [src : Sources, amp : Amps]

\* speaker segments in microseconds from the start of the chunk: one of 3184
\* samples, and one of 199.96 ms whose bounds truncate to 3200 samples
SegChoices == {[s |-> 0, e |-> 199000, spk |-> "SPEAKER_00"],
               [s |-> 1000040, e |-> 1200000, spk |-> "SPEAKER_01"]}

RECURSIVE SeqsUpTo(_, _)
SeqsUpTo(S, n) ==
    IF n = 0 THEN {<<>>}
    ELSE LET shorter == SeqsUpTo(S, n - 1)
         IN  shorter \cup {Append(q, x) : q \in {r \in shorter : Len(r) = n - 1}, x \in S}

SegLists == SeqsUpTo(SegChoices, MaxSegs)
SegListsT == SeqsUpTo(SegChoices, MaxSegsT)

EnginePcs == {"std", "diar", "whole", "seg", "segfb", "cpu", "fb"}

NoJob == [src |-> "-", amp |-> <<>>, segs |-> <<>>, idx |-> 0]
JobOf(c) == [src |-> c.src, amp |-> c.amp, segs |-> <<>>, idx |-> 0]

CallEv(k, dev, out) ==
    [k |-> k, dev |-> dev, out |-> out, src |-> "-", spk |-> "-", via |-> "-"]
CbEv(src, spk, via, out) ==
    [k |-> "cb", dev |-> "-", out |-> out, src |-> src, spk |-> spk, via |-> via]

(***************************************************************************)
(* Pure functions.                                                         *)
(***************************************************************************)
RECURSIVE SumSq(_)
SumSq(a) == IF a = <<>> THEN 0 ELSE Head(a) * Head(a) + SumSq(Tail(a))

\* rms = sqrt(mean(audio**2)); rms < 0.001
Silent(a) ==
    /\ Len(a) > 0
    /\ SumSq(a) < SilenceThreshold * SilenceThreshold * Len(a)

ChunkFrames == WHISPER_SAMPLE_RATE * CHUNK_SECONDS

\* int(t * WHISPER_SAMPLE_RATE) for t microseconds
Frame(us) == (us * (WHISPER_SAMPLE_RATE \div 1000)) \div 1000

Min(a, b) == IF a < b THEN a ELSE b

\* len(audio_float[start_frame:end_frame]) for an audio of n frames
SliceLen(n, s) ==
    LET lo == Min(Frame(s.s), n)
        hi == Min(Frame(s.e), n)
    IN  IF hi > lo THEN hi - lo ELSE 0

\* the floor as a bug would have it: a tenth of a second
TooShortTenth(s) == SliceLen(ChunkFrames, s) * 10 < WHISPER_SAMPLE_RATE

\* len(segment_audio) < WHISPER_SAMPLE_RATE * 0.2
TooShort(s) == SliceLen(ChunkFrames, s) * 5 < WHISPER_SAMPLE_RATE

\* an accelerator out-of-memory error comes from a call that runs on the accelerator
TrOutcomes(dev) == {"text", "empty", "exc"} \cup (IF dev = "cuda" THEN {"oom"} ELSE {})
DiarOutcomes(dev) == {"segs", "exc"} \cup (IF dev = "cuda" THEN {"oom"} ELSE {})
CbOutcomes == {"ok", "raise"}

FileCb(t) == IF t = Control THEN "file_control" ELSE "file_reprocess"

(***************************************************************************)
(* Initial states.  The models are loaded once, on the accelerator when    *)
(* there is one and loading did not exhaust it; the diarization pipeline   *)
(* is optional.  The Transcriber starts with recording disabled.           *)
(***************************************************************************)
Init ==
    /\ queue = <<>>
    /\ unfinished_tasks = 0
    /\ produced = 0
    /\ stop_event = FALSE
    /\ recording_enabled = FALSE
    /\ is_recording = FALSE
    /\ modelDev \in {"cuda", "cpu"}
    /\ diarDev \in {"cuda", "cpu", "none"}
    /\ moved = {}
    /\ text_callback = "ui"
    /\ pc = [t \in Threads |-> IF t = Consumer THEN "loop" ELSE "idle"]
    /\ job = [t \in Threads |-> NoJob]
    /\ calldev = [t \in Threads |-> "-"]
    /\ saved = [t \in Threads |-> "-"]
    /\ files = 0
    /\ gate = "-"
    /\ trace = <<>>
    /\ segtr = <<>>
    /\ res = <<>>
    /\ samplerate = [s \in Sources |-> 0]
    /\ buffer_list = [s \in Sources |-> <<>>]
    /\ buffer_size = [s \in Sources |-> 0]
    /\ file_buffer = [s \in Sources |-> <<>>]
    /\ is_writing_audio = FALSE
    /\ lock = "free"
    /\ delivered = [s \in Sources |-> 0]
    /\ nblocks = [s \in Sources |-> 0]
    /\ writes = 0
    /\ taken = <<>>
    /\ mixed_audio_path = "none"
    /\ buffer_copy = [s \in Sources |-> <<>>]
    /\ stopped = [ret |-> "-", save |-> "-"]
    /\ mixed = <<>>
    /\ startpos = [s \in Sources |-> 0]
    /\ armed = FALSE
    /\ window = [s \in Sources |-> [from |-> 0, to |-> 0]]
    /\ loopback_silence_warning_shown = FALSE
    /\ warned = <<>>
    /\ escaped = {}
    /\ app_recorder = 0
    /\ streams = [r \in Sessions |-> [s \in Sources |-> "none"]]
    /\ leaked = [r \in Sessions |-> 0]
    /\ failed_start = {}
    /\ consumer = [r \in Sessions |-> "none"]
    /\ loop = [r \in Sessions |-> "none"]
    /\ loopref = [r \in Sessions |-> 0]
    /\ output_file = [t \in FileThreads |-> "none"]
    /\ exited = [t \in FileThreads |-> "-"]
    /\ assign = "none"
    /\ starter = "-"
    /\ timer_enabled = FALSE
    /\ remaining_seconds = 0
    /\ countdown = [k \in 1..MaxTimers |-> "none"]
    /\ pending = 0
    /\ started_by_timer = FALSE

(***************************************************************************)
(* Helpers of the actions.                                                 *)
(***************************************************************************)
Local(t, p, j, d) ==
    /\ pc' = [pc EXCEPT ![t] = p]
    /\ job' = [job EXCEPT ![t] = j]
    /\ calldev' = [calldev EXCEPT ![t] = d]

\* an engine call is entered: the diarizer runs on its device, whisper on its own
Enter(t, k, j, mdev, ddev) == Local(t, k, j, IF k = "diar" THEN ddev ELSE mdev)

\* the processing of the audio returns to its caller
Return(t, j) == Local(t, IF t = Consumer THEN "fin" ELSE "restore", j, "-")

\* an exception leaves the processing of the audio
Raise(t, j) == Local(t, IF t = Consumer THEN "caught" ELSE "filecaught", j, "-")

LogChunk(t, evs) == trace' = IF t = Consumer THEN trace \o evs ELSE trace
LogSeg(t, evs) == segtr' = IF t = Consumer THEN segtr \o evs ELSE segtr

Emit(src, spk, cb) == CbEv(src, spk, text_callback, cb)

Calls(tr) == SelectSeq(tr, LAMBDA e : e.k # "cb")
Cbs(tr) == SelectSeq(tr, LAMBDA e : e.k = "cb")

\* what came of a segment that was transcribed
Summary(tr) ==
    IF Cbs(tr) # <<>> THEN "cb"
    ELSE IF \E i \in 1..Len(tr) : tr[i].out = "text" THEN "lost"
    ELSE IF \E i \in 1..Len(tr) : tr[i].out = "empty" THEN "empty"
    ELSE "failed"

\* the state of the AudioRecorder
UnchangedFile ==
    UNCHANGED <<mixed_audio_path, buffer_copy, stopped, mixed, startpos, armed, window>>
UnchangedDiag == UNCHANGED <<loopback_silence_warning_shown, warned, escaped>>
UnchangedSessions ==
    UNCHANGED <<app_recorder, streams, leaked, failed_start, consumer, loop, loopref>>
UnchangedRecorder ==
    /\ UNCHANGED <<samplerate, buffer_list, buffer_size, file_buffer, is_writing_audio,
                   lock, delivered, nblocks, writes, taken>>
    /\ UnchangedFile /\ UnchangedDiag
UnchangedRec == UnchangedRecorder /\ UnchangedSessions
UnchangedEnv ==
    /\ UNCHANGED <<queue, unfinished_tasks, produced, stop_event, recording_enabled,
                   is_recording, files>>
    /\ UnchangedRec
UnchangedDev == UNCHANGED <<modelDev, diarDev, moved>>
UnchangedCb == UNCHANGED <<text_callback, saved, output_file, exited>>
UnchangedUi ==
    UNCHANGED <<assign, starter, timer_enabled, remaining_seconds, countdown, pending,
                started_by_timer>>
UnchangedLocal == UNCHANGED <<pc, job, calldev>>
UnchangedHist == UNCHANGED <<gate, trace, segtr, res>>

(***************************************************************************)
(* AudioRecorder._process_data: a completed chunk is put on the queue.     *)
(***************************************************************************)
Put(maxChunks) ==
    /\ produced < maxChunks
    /\ \E c \in Chunks : queue' = Append(queue, c)
    /\ unfinished_tasks' = unfinished_tasks + 1
    /\ produced' = produced + 1
    /\ UNCHANGED <<stop_event, recording_enabled, is_recording, files>>
    /\ UnchangedRec
    /\ UnchangedDev /\ UnchangedCb /\ UnchangedUi /\ UnchangedLocal /\ UnchangedHist

(***************************************************************************)
(* Transcriber._transcribe_standard up to its engine call.                 *)
(***************************************************************************)
\* the gate as a bug would have it: on the peak amplitude instead of the RMS
SkipsEnginePeak(j) ==
    j.src = "MIC" /\ \A i \in 1..Len(j.amp) : j.amp[i] < SilenceThreshold

\* the gate as a bug would have it: applied to every source
SkipsEngineAnySource(j) == Silent(j.amp)

SkipsEngine(j) == j.src = "MIC" /\ Silent(j.amp)

Standard(t, j) ==
    IF SkipsEngine(j) THEN Return(t, j) ELSE Enter(t, "std", j, modelDev, diarDev)

\* Transcriber.run, lines 62-73: what a dequeued chunk is handed to
UsesDiarizer(src) == src = "LOOPBACK" /\ diarDev # "none"

Dispatch(t, j) ==
    IF UsesDiarizer(j.src)
    THEN Enter(t, "diar", j, modelDev, diarDev)
    ELSE Standard(t, j)

(***************************************************************************)
(* Transcriber.run.                                                        *)
(***************************************************************************)
\* the loop as a bug would have it: the stop flag is not looked at
LoopCheckIgnoresStop ==
    /\ pc[Consumer] = "loop"
    /\ pc' = [pc EXCEPT ![Consumer] = "get"]
    /\ UNCHANGED <<job, calldev>>
    /\ UnchangedEnv /\ UnchangedDev /\ UnchangedCb /\ UnchangedUi /\ UnchangedHist

LoopCheck ==
    /\ pc[Consumer] = "loop"
    /\ pc' = [pc EXCEPT ![Consumer] = IF stop_event THEN "done" ELSE "get"]
    /\ UNCHANGED <<job, calldev>>
    /\ UnchangedEnv /\ UnchangedDev /\ UnchangedCb /\ UnchangedUi /\ UnchangedHist

GetTimeout ==
    /\ pc[Consumer] = "get"
    /\ queue = <<>>
    /\ pc' = [pc EXCEPT ![Consumer] = "loop"]
    /\ UNCHANGED <<job, calldev>>
    /\ UnchangedEnv /\ UnchangedDev /\ UnchangedCb /\ UnchangedUi /\ UnchangedHist

\* the flag as a bug would have it: never looked at
DiscardsNever(enabled) == FALSE

Discards(enabled) == ~enabled

Get ==
    /\ pc[Consumer] = "get"
    /\ queue # <<>>
    /\ queue' = Tail(queue)
    /\ UNCHANGED unfinished_tasks
    /\ gate' = IF recording_enabled THEN "enabled" ELSE "disabled"
    /\ IF Discards(recording_enabled)
       THEN Return(Consumer, JobOf(Head(queue)))
       ELSE Dispatch(Consumer, JobOf(Head(queue)))
    /\ trace' = <<>> /\ segtr' = <<>> /\ res' = <<>>
    /\ UNCHANGED <<produced, stop_event, recording_enabled, is_recording, files>>
    /\ UnchangedRec
    /\ UnchangedDev /\ UnchangedCb /\ UnchangedUi

\* the discard as a bug would have it: `continue` without task_done
TaskDoneNotOnDiscard ==
    /\ pc[Consumer] = "fin"
    /\ Local(Consumer, "loop", NoJob, "-")
    /\ unfinished_tasks' = IF gate = "disabled" THEN unfinished_tasks
                           ELSE unfinished_tasks - 1
    /\ gate' = "-" /\ trace' = <<>> /\ segtr' = <<>> /\ res' = <<>>
    /\ UNCHANGED <<queue, produced, stop_event, recording_enabled, is_recording, files>>
    /\ UnchangedRec
    /\ UnchangedDev /\ UnchangedCb /\ UnchangedUi

\* line 75 (and line 57): task_done, back to the head of the loop
TaskDone ==
    /\ pc[Consumer] = "fin"
    /\ Local(Consumer, "loop", NoJob, "-")
    /\ unfinished_tasks' = unfinished_tasks - 1
    /\ gate' = "-" /\ trace' = <<>> /\ segtr' = <<>> /\ res' = <<>>
    /\ UNCHANGED <<queue, produced, stop_event, recording_enabled, is_recording, files>>
    /\ UnchangedRec
    /\ UnchangedDev /\ UnchangedCb /\ UnchangedUi

\* the handler as a bug would have it: the exception ends the thread
RunCaughtDies ==
    /\ pc[Consumer] = "caught"
    /\ Local(Consumer, "done", NoJob, "-")
    /\ gate' = "-" /\ trace' = <<>> /\ segtr' = <<>> /\ res' = <<>>
    /\ UnchangedEnv /\ UnchangedDev /\ UnchangedCb /\ UnchangedUi

\* lines 79-83: the exception is printed, task_done, back to the head of the loop
RunCaught ==
    /\ pc[Consumer] = "caught"
    /\ Local(Consumer, "loop", NoJob, "-")
    /\ unfinished_tasks' = unfinished_tasks - 1
    /\ gate' = "-" /\ trace' = <<>> /\ segtr' = <<>> /\ res' = <<>>
    /\ UNCHANGED <<queue, produced, stop_event, recording_enabled, is_recording, files>>
    /\ UnchangedRec
    /\ UnchangedDev /\ UnchangedCb /\ UnchangedUi

(***************************************************************************)
(* The engine call of _transcribe_standard returns or raises.              *)
(***************************************************************************)
EndStd(t) ==
    /\ pc[t] = "std"
    /\ \E out \in TrOutcomes(calldev[t]) :
         LET call == CallEv("std", calldev[t], out)
         IN  \/ /\ out = "text"
                /\ \E cb \in CbOutcomes :
                     /\ LogChunk(t, <<call, Emit(job[t].src, "None", cb)>>)
                     /\ IF cb = "ok" THEN Return(t, job[t]) ELSE Raise(t, job[t])
             \/ /\ out = "empty"
                /\ LogChunk(t, <<call>>)
                /\ Return(t, job[t])
             \/ /\ out \in {"exc", "oom"}
                /\ LogChunk(t, <<call>>)
                /\ Raise(t, job[t])
    /\ UNCHANGED <<gate, segtr, res>>
    /\ UnchangedEnv /\ UnchangedDev /\ UnchangedCb /\ UnchangedUi

(***************************************************************************)
(* Transcriber.diarize_and_transcribe.                                     *)
(***************************************************************************)
\* the move as a bug would have it: the model changes sides
ModelAfterMoveToggles(dev) == IF dev = "cuda" THEN "cpu" ELSE "cuda"

ModelAfterMove(dev) == IF dev = "cuda" THEN "cpu" ELSE dev
DiarAfterMove(dev) == IF dev = "cuda" THEN "cpu" ELSE dev

\* lines 211-231: the models are moved to the CPU and the chunk is retried;
\* a move that raises ends the processing of the chunk
OomHandler(t) ==
    \/ /\ modelDev' = ModelAfterMove(modelDev)
       /\ diarDev' = DiarAfterMove(diarDev)
       /\ moved' = moved \cup {"model" : x \in {modelDev} \cap {"cuda"}}
                         \cup {"diar" : x \in {diarDev} \cap {"cuda"}}
       /\ Enter(t, "cpu", job[t], modelDev', diarDev')
    \/ \* model.to('cpu') raises
       /\ modelDev = "cuda"
       /\ UNCHANGED <<modelDev, diarDev, moved>>
       /\ Return(t, job[t])
    \/ \* diarization_pipeline.to('cpu') raises
       /\ diarDev = "cuda"
       /\ modelDev' = ModelAfterMove(modelDev)
       /\ moved' = moved \cup {"model" : x \in {modelDev} \cap {"cuda"}}
       /\ UNCHANGED diarDev
       /\ Return(t, job[t])

\* lines 148-167: no segment, the whole chunk is transcribed; else the loop
AfterDiarization(t, j) ==
    IF j.segs = <<>>
    THEN Enter(t, "whole", j, modelDev, diarDev)
    ELSE Local(t, "for", j, "-")

EndDiar(t, lists) ==
    /\ pc[t] = "diar"
    /\ \E out \in DiarOutcomes(calldev[t]) :
         LET call == CallEv("diar", calldev[t], out)
         IN  /\ LogChunk(t, <<call>>)
             /\ \/ /\ out = "segs"
                   /\ \E segs \in lists :
                        AfterDiarization(t, [job[t] EXCEPT !.segs = segs, !.idx = 0])
                   /\ UnchangedDev
                \/ /\ out = "exc"
                   /\ Enter(t, "fb", job[t], modelDev, diarDev)
                   /\ UnchangedDev
                \/ /\ out = "oom"
                   /\ OomHandler(t)
    /\ UNCHANGED <<gate, segtr, res>>
    /\ UnchangedEnv /\ UnchangedCb /\ UnchangedUi

\* lines 155-165: no segment, the whole chunk is transcribed
EndWhole(t) ==
    /\ pc[t] = "whole"
    /\ \E out \in TrOutcomes(calldev[t]) :
         LET call == CallEv("whole", calldev[t], out)
         IN  \/ /\ out = "text"
                /\ \E cb \in CbOutcomes :
                     /\ LogChunk(t, <<call, Emit("LOOPBACK", "None", cb)>>)
                     /\ IF cb = "ok"
                        THEN Return(t, job[t])
                        ELSE Enter(t, "fb", job[t], modelDev, diarDev)
                /\ UnchangedDev
             \/ /\ out = "empty"
                /\ LogChunk(t, <<call>>)
                /\ Return(t, job[t])
                /\ UnchangedDev
             \/ /\ out = "exc"
                /\ LogChunk(t, <<call>>)
                /\ Enter(t, "fb", job[t], modelDev, diarDev)
                /\ UnchangedDev
             \/ /\ out = "oom"
                /\ LogChunk(t, <<call>>)
                /\ OomHandler(t)
    /\ UNCHANGED <<gate, segtr, res>>
    /\ UnchangedEnv /\ UnchangedCb /\ UnchangedUi

\* the iteration as a bug would have it: the turns are visited last to first
TurnReversed(j) == j.segs[Len(j.segs) + 1 - j.idx]

\* line 170: the turn the for loop is at, in the order itertracks yields them
Turn(j) == j.segs[j.idx]

\* line 170: the head of the loop over the segments
ForStep(t) ==
    /\ pc[t] = "for"
    /\ LET j == job[t]
           folded == IF t = Consumer /\ segtr # <<>>
                     THEN Append(res, Summary(segtr)) ELSE res
       IN  IF j.idx = Len(j.segs)
           THEN /\ res' = folded
                /\ Return(t, j)
           ELSE LET i == j.idx + 1
                    next == [j EXCEPT !.idx = i]
                IN  IF TooShort(Turn(next))
                    THEN /\ res' = IF t = Consumer THEN Append(folded, "short") ELSE res
                         /\ Local(t, "for", next, "-")
                    ELSE /\ res' = folded
                         /\ Enter(t, "seg", next, modelDev, diarDev)
    /\ segtr' = <<>>
    /\ UNCHANGED <<gate, trace>>
    /\ UnchangedEnv /\ UnchangedDev /\ UnchangedCb /\ UnchangedUi

\* where an exception in the transcription of a segment leads
AfterSegError(t) == Enter(t, "segfb", job[t], modelDev, diarDev)

\* lines 183-194: the transcription of one segment
EndSeg(t) ==
    /\ pc[t] = "seg"
    /\ \E out \in TrOutcomes(calldev[t]) :
         LET call == CallEv("seg", calldev[t], out)
             spk == Turn(job[t]).spk
         IN  \/ /\ out = "text"
                /\ \E cb \in CbOutcomes :
                     /\ LogSeg(t, <<call, Emit("LOOPBACK", spk, cb)>>)
                     /\ IF cb = "ok"
                        THEN Local(t, "for", job[t], "-")
                        ELSE AfterSegError(t)
             \/ /\ out = "empty"
                /\ LogSeg(t, <<call>>)
                /\ Local(t, "for", job[t], "-")
             \/ /\ out \in {"exc", "oom"}
                /\ LogSeg(t, <<call>>)
                /\ AfterSegError(t)
    /\ UNCHANGED <<gate, trace, res>>
    /\ UnchangedEnv /\ UnchangedDev /\ UnchangedCb /\ UnchangedUi

\* the retry as a bug would have it: it ends the processing of the chunk
AfterSegRetryAborts(t) == Return(t, job[t])

\* where the loop goes once the retry of a segment is over, however it ended
AfterSegRetry(t) == Local(t, "for", job[t], "-")

\* lines 196-209: the retry of one segment
EndSegFb(t) ==
    /\ pc[t] = "segfb"
    /\ \E out \in TrOutcomes(calldev[t]) :
         LET call == CallEv("segfb", calldev[t], out)
             spk == Turn(job[t]).spk
         IN  \/ /\ out = "text"
                /\ \E cb \in CbOutcomes :
                     LogSeg(t, <<call, Emit("LOOPBACK", spk, cb)>>)
             \/ /\ out # "text"
                /\ LogSeg(t, <<call>>)
    /\ AfterSegRetry(t)
    /\ UNCHANGED <<gate, trace, res>>
    /\ UnchangedEnv /\ UnchangedDev /\ UnchangedCb /\ UnchangedUi

\* the retry as a bug would have it: the callback is invoked whatever the text
EndCpuEmitsEmpty(t) ==
    /\ pc[t] = "cpu"
    /\ \E out \in TrOutcomes(calldev[t]) :
         LET call == CallEv("cpu", calldev[t], out)
         IN  \/ /\ out \in {"text", "empty"}
                /\ \E cb \in CbOutcomes :
                     LogChunk(t, <<call, Emit("LOOPBACK", "None", cb)>>)
             \/ /\ out \notin {"text", "empty"}
                /\ LogChunk(t, <<call>>)
    /\ Return(t, job[t])
    /\ UNCHANGED <<gate, segtr, res>>
    /\ UnchangedEnv /\ UnchangedDev /\ UnchangedCb /\ UnchangedUi

\* lines 229-238: the retry of the chunk on the CPU
EndCpu(t) ==
    /\ pc[t] = "cpu"
    /\ \E out \in TrOutcomes(calldev[t]) :
         LET call == CallEv("cpu", calldev[t], out)
         IN  \/ /\ out = "text"
                /\ \E cb \in CbOutcomes :
                     LogChunk(t, <<call, Emit("LOOPBACK", "None", cb)>>)
             \/ /\ out # "text"
                /\ LogChunk(t, <<call>>)
    /\ Return(t, job[t])
    /\ UNCHANGED <<gate, segtr, res>>
    /\ UnchangedEnv /\ UnchangedDev /\ UnchangedCb /\ UnchangedUi

\* lines 240-251: the fallback after any other exception
EndFb(t) ==
    /\ pc[t] = "fb"
    /\ \E out \in TrOutcomes(calldev[t]) :
         LET call == CallEv("fb", calldev[t], out)
         IN  \/ /\ out = "text"
                /\ \E cb \in CbOutcomes :
                     /\ LogChunk(t, <<call, Emit("LOOPBACK", "None", cb)>>)
                     /\ IF cb = "ok" THEN Return(t, job[t]) ELSE Raise(t, job[t])
             \/ /\ out = "empty"
                /\ LogChunk(t, <<call>>)
                /\ Return(t, job[t])
             \/ /\ out \in {"exc", "oom"}
                /\ LogChunk(t, <<call>>)
                /\ Raise(t, job[t])
    /\ UNCHANGED <<gate, segtr, res>>
    /\ UnchangedEnv /\ UnchangedDev /\ UnchangedCb /\ UnchangedUi

Process(t, lists) ==
    \/ EndStd(t)
    \/ EndDiar(t, lists)
    \/ EndWhole(t)
    \/ ForStep(t)
    \/ EndSeg(t)
    \/ EndSegFb(t)
    \/ EndCpu(t)
    \/ EndFb(t)

(***************************************************************************)
(* The control thread.                                                     *)
(***************************************************************************)
\* Application._start_file_recording
StartFileRecording ==
    /\ pc[Control] = "idle"
    /\ ~is_recording
    /\ is_recording' = TRUE
    /\ recording_enabled' = TRUE
    /\ UNCHANGED <<queue, unfinished_tasks, produced, stop_event, files>>
    /\ UnchangedRec
    /\ UnchangedDev /\ UnchangedCb /\ UnchangedUi /\ UnchangedLocal /\ UnchangedHist

\* Application._stop_file_recording; path: what stop_audio_file_writing returned
StopFileRecording(path) ==
    /\ pc[Control] = "idle"
    /\ is_recording
    /\ is_recording' = FALSE
    /\ recording_enabled' = FALSE
    /\ IF path
       THEN /\ files < MaxFiles
            /\ files' = files + 1
            /\ pc' = [pc EXCEPT ![Control] = "file"]
       ELSE UNCHANGED <<files, pc>>
    /\ UNCHANGED <<queue, unfinished_tasks, produced, stop_event, job, calldev>>
    /\ UnchangedRec
    /\ UnchangedDev /\ UnchangedCb /\ UnchangedUi /\ UnchangedHist

\* Transcriber.stop
Stop ==
    /\ pc[Control] = "idle"
    /\ ~stop_event
    /\ stop_event' = TRUE
    /\ UNCHANGED <<queue, unfinished_tasks, produced, recording_enabled, is_recording,
                   files>>
    /\ UnchangedRec
    /\ UnchangedDev /\ UnchangedCb /\ UnchangedUi /\ UnchangedLocal /\ UnchangedHist

(***************************************************************************)
(* The consumer and its producer, with a control thread that starts and    *)
(* stops recordings that leave no file to transcribe.                      *)
(***************************************************************************)
Next ==
    \/ Put(MaxChunks)
    \/ LoopCheck
    \/ GetTimeout
    \/ Get
    \/ TaskDone
    \/ RunCaught
    \/ Process(Consumer, SegLists)
    \/ StartFileRecording
    \/ StopFileRecording(FALSE)
    \/ Stop

Spec == Init /\ [][Next]_vars

\* the consumer is a running thread and its engine calls come to an end
ConsumerStep ==
    \/ LoopCheck
    \/ GetTimeout
    \/ Get
    \/ TaskDone
    \/ RunCaught
    \/ Process(Consumer, SegListsT)

NextLive ==
    \/ Put(MaxChunks)
    \/ ConsumerStep
    \/ StartFileRecording
    \/ StopFileRecording(FALSE)
    \/ Stop

SpecLive == Init /\ [][NextLive]_vars /\ WF_vars(ConsumerStep)

(***************************************************************************)
(* Transcriber.transcribe_recording_file, called by the control thread     *)
(* (_stop_file_recording) and by the thread of reprocess_meeting.          *)
(***************************************************************************)
\* Application.reprocess_meeting: the thread is started and finds the audio file
ReprocessStart ==
    /\ pc[Reproc] = "idle"
    /\ files < MaxFiles
    /\ files' = files + 1
    /\ pc' = [pc EXCEPT ![Reproc] = "file"]
    /\ UNCHANGED <<queue, unfinished_tasks, produced, stop_event, recording_enabled,
                   is_recording>>
    /\ UnchangedRec
    /\ UNCHANGED <<job, calldev>>
    /\ UnchangedDev /\ UnchangedCb /\ UnchangedUi /\ UnchangedHist

FileJob == [src |-> "LOOPBACK", amp |-> <<10, 10>>, segs |-> <<>>, idx |-> 0]

\* lines 259-322: the file is read, the callback is replaced, the audio is processed
FileBegin(t) ==
    /\ pc[t] = "file"
    /\ \/ \* reading the file raises
          /\ Local(t, "filecaught", NoJob, "-")
          /\ output_file' = [output_file EXCEPT ![t] = "none"]
          /\ UNCHANGED <<text_callback, saved>>
       \/ \E opened \in BOOLEAN :
            /\ saved' = [saved EXCEPT ![t] = text_callback]
            /\ text_callback' = IF opened THEN FileCb(t) ELSE text_callback
            /\ output_file' = [output_file EXCEPT
                                  ![t] = IF opened THEN "open" ELSE "none"]
            /\ IF diarDev # "none"
               THEN Enter(t, "diar", FileJob, modelDev, diarDev)
               ELSE Standard(t, FileJob)
    /\ exited' = [exited EXCEPT ![t] = "-"]
    /\ UnchangedEnv /\ UnchangedDev /\ UnchangedHist /\ UnchangedUi

\* lines 324-332: the callback is restored
FileRestore(t) ==
    /\ pc[t] = "restore"
    /\ text_callback' = saved[t]
    /\ output_file' = [output_file EXCEPT
                          ![t] = IF @ = "open" THEN "closed" ELSE @]
    /\ exited' = [exited EXCEPT ![t] = "same"]
    /\ saved' = [saved EXCEPT ![t] = "-"]
    /\ Local(t, "idle", NoJob, "-")
    /\ UnchangedEnv /\ UnchangedDev /\ UnchangedHist /\ UnchangedUi

\* lines 334-337: an exception is printed
FileCaught(t) ==
    /\ pc[t] = "filecaught"
    /\ saved' = [saved EXCEPT ![t] = "-"]
    /\ Local(t, "idle", NoJob, "-")
    /\ exited' = [exited EXCEPT
                     ![t] = IF saved[t] = "-" \/ text_callback = saved[t]
                            THEN "same" ELSE "changed"]
    /\ UNCHANGED <<text_callback, output_file>>
    /\ UnchangedEnv /\ UnchangedDev /\ UnchangedHist /\ UnchangedUi

(***************************************************************************)
(* The consumer together with the callers of transcribe_recording_file.    *)
(***************************************************************************)
NextThreads ==
    \/ Put(MaxChunksT)
    \/ LoopCheck
    \/ GetTimeout
    \/ Get
    \/ TaskDone
    \/ RunCaught
    \/ StartFileRecording
    \/ \E path \in BOOLEAN : StopFileRecording(path)
    \/ Stop
    \/ ReprocessStart
    \/ \E t \in Threads : Process(t, SegListsT)
    \/ \E t \in FileThreads : FileBegin(t) \/ FileRestore(t) \/ FileCaught(t)

SpecThreads == Init /\ [][NextThreads]_vars

(***************************************************************************)
(* AudioRecorder.  An array of samples is the sequence of the intervals    *)
(* [pos, n] of stream positions it holds, adjacent intervals merged, so    *)
(* that two arrays are equal exactly when they hold the same samples.      *)
(***************************************************************************)
Rates == {8000, 16000, 44100, 48000}

RECURSIVE ArrLen(_)
ArrLen(a) == IF a = <<>> THEN 0 ELSE Head(a).n + ArrLen(Tail(a))

\* np.concatenate of two arrays
Join(a, b) ==
    LET x == SelectSeq(a, LAMBDA i : i.n > 0)
        y == SelectSeq(b, LAMBDA i : i.n > 0)
    IN  IF x = <<>> THEN y
        ELSE IF y = <<>> THEN x
        ELSE LET l == x[Len(x)]
                 f == y[1]
             IN  IF l.pos + l.n = f.pos
                 THEN SubSeq(x, 1, Len(x) - 1) \o <<[pos |-> l.pos, n |-> l.n + f.n]>>
                      \o Tail(y)
                 ELSE x \o y

\* np.concatenate(buffer_list)
RECURSIVE Concatenate(_)
Concatenate(list) ==
    IF list = <<>> THEN <<>> ELSE Join(Head(list), Concatenate(Tail(list)))

\* a[:k]
RECURSIVE Take(_, _)
Take(a, k) ==
    IF a = <<>> \/ k <= 0 THEN <<>>
    ELSE IF Head(a).n <= k THEN <<Head(a)>> \o Take(Tail(a), k - Head(a).n)
    ELSE <<[pos |-> Head(a).pos, n |-> k]>>

\* a[k:]
RECURSIVE Drop(_, _)
Drop(a, k) ==
    IF a = <<>> THEN <<>>
    ELSE IF k <= 0 THEN a
    ELSE IF Head(a).n <= k THEN Drop(Tail(a), k - Head(a).n)
    ELSE <<[pos |-> Head(a).pos + k, n |-> Head(a).n - k]>> \o Tail(a)

\* the chunk length as a bug would have it: counted at the target rate
FramesPerChunkTarget(rate) == WHISPER_SAMPLE_RATE * CHUNK_SECONDS

\* frames_per_chunk = int(samplerate * CHUNK_SECONDS)
FramesPerChunk(rate) == rate * CHUNK_SECONDS

RECURSIVE Gcd(_, _)
Gcd(a, b) == IF b = 0 THEN a ELSE Gcd(b, a % b)

\* the resampling as a bug would have it: decimation by a whole factor
ResampleLenDecimate(n, rate) ==
    n \div ((rate + WHISPER_SAMPLE_RATE - 1) \div WHISPER_SAMPLE_RATE)

\* length of T.Resample(orig_freq=rate, new_freq=WHISPER_SAMPLE_RATE) applied to
\* n samples: ceil(new_freq * n / orig_freq), the rates divided by their gcd
ResampleLen(n, rate) ==
    LET g == Gcd(rate, WHISPER_SAMPLE_RATE)
        orig == rate \div g
        new == WHISPER_SAMPLE_RATE \div g
    IN  (new * n + orig - 1) \div orig

\* start_recording, lines 228-236: a resampler exists when the rates differ
HasResampler(rate) == rate # WHISPER_SAMPLE_RATE

\* lines 123-128: the length of audio_final
AudioFinalLen(n, rate) == IF HasResampler(rate) THEN ResampleLen(n, rate) ELSE n

\* lines 101-117: the block is appended to the backlog and a chunk is cut from it
Chunked(list, size, indata, rate) ==
    LET list1 == Append(list, indata)
        size1 == size + ArrLen(indata)
        frames_per_chunk == FramesPerChunk(rate)
    IN  IF size1 >= frames_per_chunk
        THEN LET full_audio == Concatenate(list1)
                 chunk == Take(full_audio, frames_per_chunk)
                 remainder == Drop(full_audio, frames_per_chunk)
             IN  [list |-> IF ArrLen(remainder) > 0 THEN <<remainder>> ELSE <<>>,
                  size |-> ArrLen(remainder),
                  out |-> <<chunk>>]
        ELSE [list |-> list1, size |-> size1, out |-> <<>>]

\* the sizes of the blocks _process_data is given: the streams' block size, a
\* whole chunk, two chunks
Sizes(rate) == {BlockSize, FramesPerChunk(rate), 2 * FramesPerChunk(rate)}
DriverSizes(rate) == {BlockSize}

\* the queue as a bug would have it: bounded
PutBlocksBounded(q) == Len(q) >= 1

\* queue.Queue.put blocks while a bounded queue is full
PutBlocks(q) == QueueMaxsize > 0 /\ Len(q) >= QueueMaxsize

\* the queue as a bug would have it: last in, first out
QueueGetLifo(q) == [item |-> q[Len(q)], rest |-> SubSeq(q, 1, Len(q) - 1)]

\* the get as a bug would have it: the item is read and left on the queue
QueueGetPeek(q) == [item |-> Head(q), rest |-> q]

\* queue.Queue.get
QueueGet(q) == [item |-> Head(q), rest |-> Tail(q)]

\* what the recorder's and the sessions' actions leave alone
UnchangedConsumer ==
    /\ UNCHANGED <<produced, stop_event, recording_enabled, is_recording, files>>
    /\ UnchangedDev /\ UnchangedCb /\ UnchangedUi /\ UnchangedLocal /\ UnchangedHist

\* AudioRecorder.start_recording: the streams are opened at the devices' rates
StartRecording ==
    /\ \A s \in Sources : samplerate[s] = 0
    /\ samplerate' \in [Sources -> Rates]
    /\ UNCHANGED <<queue, unfinished_tasks, buffer_list, buffer_size, file_buffer,
                   is_writing_audio,
                   lock, delivered, nblocks, writes, taken>>
    /\ UnchangedFile /\ UnchangedDiag /\ UnchangedSessions
    /\ UnchangedConsumer

\* the block the stream of src delivers next
Indata(src, n) == <<[pos |-> delivered[src], n |-> n]>>

\* np.abs(indata).mean() of a block: silent, just below the floor, at the floor
MeanAbs == {0, SilenceFloor - 1, SilenceFloor}
LoudOnly == {SilenceFloor}

\* the callback can run to its end: the stream is open, the lock can be taken
\* and the put of a completed chunk does not block
CallbackRuns(src, n) ==
    /\ lock = "free"
    /\ samplerate[src] # 0
    /\ nblocks[src] < MaxBlocks
    /\ Chunked(buffer_list[src], buffer_size[src], Indata(src, n),
               samplerate[src]).out # <<>> => ~PutBlocks(queue)

\* the file buffer as a bug would have it: appended to whatever the flag
FileAppendAlways(writing, buf, indata) == Append(buf, indata)

\* lines 71-75: the raw block goes to the source's file buffer while writing
FileAppend(writing, buf, indata) == IF writing THEN Append(buf, indata) ELSE buf

\* the diagnostic as a bug would have it: the flag is not looked at
WarnsAgain(src, shown, mean_abs) == src = "LOOPBACK" /\ mean_abs < SilenceFloor

\* lines 92-94: the diagnostic is printed
Warns(src, shown, mean_abs) ==
    src = "LOOPBACK" /\ ~shown /\ mean_abs < SilenceFloor

\* lines 92-99
Diagnose(src, mean_abs) ==
    IF Warns(src, loopback_silence_warning_shown, mean_abs)
    THEN /\ warned' = Append(warned, [src |-> src, mean_abs |-> mean_abs])
         /\ loopback_silence_warning_shown' = TRUE
    ELSE UNCHANGED <<warned, loopback_silence_warning_shown>>

\* AudioRecorder._process_data, lines 70-132, for a block of n samples
ProcessBlock(src, n, mean_abs) ==
    LET indata == Indata(src, n)
        r == Chunked(buffer_list[src], buffer_size[src], indata, samplerate[src])
    IN  /\ CallbackRuns(src, n)
        /\ file_buffer' = [file_buffer EXCEPT
                              ![src] = FileAppend(is_writing_audio, @, indata)]
        /\ Diagnose(src, mean_abs)
        /\ buffer_list' = [buffer_list EXCEPT ![src] = r.list]
        /\ buffer_size' = [buffer_size EXCEPT ![src] = r.size]
        /\ queue' = IF r.out # <<>>
                    THEN Append(queue, [src |-> src, native |-> r.out[1],
                                        len |-> AudioFinalLen(ArrLen(r.out[1]),
                                                              samplerate[src])])
                    ELSE queue
        /\ unfinished_tasks' = IF r.out # <<>> THEN unfinished_tasks + 1
                               ELSE unfinished_tasks
        /\ delivered' = [delivered EXCEPT ![src] = @ + n]
        /\ nblocks' = [nblocks EXCEPT ![src] = @ + 1]
        /\ UNCHANGED <<samplerate, is_writing_audio, lock, writes, taken, escaped>>
        /\ UnchangedFile /\ UnchangedSessions
        /\ UnchangedConsumer

\* mic_callback, loopback_callback
ProcessData(src, whole, means) ==
    \E n \in (IF whole THEN Sizes(samplerate[src]) ELSE DriverSizes(samplerate[src])) :
        \E mean_abs \in means : ProcessBlock(src, n, mean_abs)

\* the calls of _process_data that can raise: the level callback (line 68, before
\* the lock is taken) and the resampler (line 126, under the lock, with the
\* chunk cut from the backlog)
RaisingCalls == {"level_callback", "resampler"}

\* mic_callback, loopback_callback when a call made by _process_data raises:
\* nothing in the two callbacks or in _process_data catches, so the exception
\* leaves the callback; `with self.lock` releases the lock, line 132 is not
\* reached and the chunk is not put
ProcessDataRaises(src, n, mean_abs, at) ==
    LET indata == Indata(src, n)
        r == Chunked(buffer_list[src], buffer_size[src], indata, samplerate[src])
    IN  /\ lock = "free"
        /\ samplerate[src] # 0
        /\ nblocks[src] < MaxBlocks
        /\ at = "resampler" => (r.out # <<>> /\ HasResampler(samplerate[src]))
        /\ IF at = "resampler"
           THEN /\ file_buffer' = [file_buffer EXCEPT
                                      ![src] = FileAppend(is_writing_audio, @, indata)]
                /\ Diagnose(src, mean_abs)
                /\ buffer_list' = [buffer_list EXCEPT ![src] = r.list]
           ELSE UNCHANGED <<file_buffer, warned, loopback_silence_warning_shown,
                            buffer_list>>
        /\ escaped' = escaped \cup {[src |-> src, at |-> at]}
        /\ delivered' = [delivered EXCEPT ![src] = @ + n]
        /\ nblocks' = [nblocks EXCEPT ![src] = @ + 1]
        /\ UNCHANGED <<queue, unfinished_tasks, buffer_size, samplerate,
                       is_writing_audio, lock, writes,
                       taken>>
        /\ UnchangedFile /\ UnchangedSessions
        /\ UnchangedConsumer

\* Transcriber.run, line 53: the consumer takes a chunk
Dequeue ==
    /\ queue # <<>>
    /\ taken' = Append(taken, QueueGet(queue).item)
    /\ queue' = QueueGet(queue).rest
    /\ UNCHANGED unfinished_tasks
    /\ UNCHANGED <<samplerate, buffer_list, buffer_size, file_buffer, is_writing_audio,
                   lock, delivered, nblocks, writes>>
    /\ UnchangedFile /\ UnchangedDiag /\ UnchangedSessions
    /\ UnchangedConsumer

\* AudioRecorder.start_audio_file_writing
StartAudioFileWriting ==
    /\ lock = "free"
    /\ writes < MaxWrites
    /\ writes' = writes + 1
    /\ mixed_audio_path' = "mixed.wav"
    /\ file_buffer' = [s \in Sources |-> <<>>]
    /\ is_writing_audio' = TRUE
    /\ startpos' = delivered
    /\ armed' = TRUE
    /\ UNCHANGED <<queue, unfinished_tasks, samplerate, buffer_list, buffer_size, lock,
                   delivered,
                   nblocks, taken, buffer_copy, stopped, mixed, window>>
    /\ UnchangedDiag /\ UnchangedSessions
    /\ UnchangedConsumer

\* AudioRecorder.stop_audio_file_writing, lines 144-145: the lock is taken and
\* the flag is cleared
StopAudioFileWriting ==
    /\ lock = "free"
    /\ lock' = Control
    /\ is_writing_audio' = FALSE
    /\ UNCHANGED <<queue, unfinished_tasks, samplerate, buffer_list, buffer_size,
                   file_buffer, delivered,
                   nblocks, writes, taken>>
    /\ UnchangedFile /\ UnchangedDiag /\ UnchangedSessions
    /\ UnchangedConsumer

\* length of T.Resample(orig_freq=rate, new_freq=MIX_SAMPLE_RATE) applied to n
\* samples
MixResampleLen(n, rate) ==
    LET g == Gcd(rate, MIX_SAMPLE_RATE)
        orig == rate \div g
        new == MIX_SAMPLE_RATE \div g
    IN  (new * n + orig - 1) \div orig

\* lines 161-182: the samples of a track and its length at the rate of the mix
TrackSamples(copy) == Concatenate(copy)
TrackLen(copy, rate) ==
    IF copy = <<>> THEN 0
    ELSE IF rate # MIX_SAMPLE_RATE
         THEN MixResampleLen(ArrLen(TrackSamples(copy)), rate)
         ELSE ArrLen(TrackSamples(copy))

Max(a, b) == IF a >= b THEN a ELSE b

\* the padding as a bug would have it: none
PadNone(track, samples, len, max_len) ==
    [track |-> track, samples |-> samples, n |-> len, zeros |-> 0]

\* torch.nn.functional.pad(tensor, (0, max_len - len)): zeros after the track
Pad(track, samples, len, max_len) ==
    [track |-> track, samples |-> samples, n |-> len, zeros |-> max_len - len]

\* lines 184-195: mixed_tensor, the microphone first
MixedTensor(copies, rates) ==
    LET mic_len == TrackLen(copies["MIC"], rates["MIC"])
        loopback_len == TrackLen(copies["LOOPBACK"], rates["LOOPBACK"])
        max_len == Max(mic_len, loopback_len)
    IN  <<Pad("MIC", TrackSamples(copies["MIC"]), mic_len, max_len),
          Pad("LOOPBACK", TrackSamples(copies["LOOPBACK"]), loopback_len, max_len)>>

\* torchaudio.save returns or raises
SaveOutcomes == {"ok", "raise"}

\* the file is written when the path is set and a block was captured
\* (lines 153, 157 and 188)
Saves(path, copies) ==
    /\ path # "none"
    /\ \E s \in Sources : copies[s] # <<>>
    /\ LET mic_padded == MixedTensor(copies, samplerate)[1]
       IN  mic_padded.n + mic_padded.zeros > 0

\* the return value as a bug would have it: a failing save is not caught
StopReturnRaises(path, copies, save) ==
    IF ~Saves(path, copies) THEN "None"
    ELSE IF save = "ok" THEN path ELSE "raised"

\* lines 153-205: what stop_audio_file_writing returns
StopReturn(path, copies, save) ==
    IF ~Saves(path, copies) THEN "None"
    ELSE IF save = "ok" THEN path ELSE "None"

\* lines 146-147 and 151-205: the buffers are copied and, with the lock released,
\* mixed and saved
StopMix ==
    /\ buffer_copy' = file_buffer
    /\ window' = [s \in Sources |->
                    [from |-> IF armed THEN startpos[s] ELSE delivered[s],
                     to |-> delivered[s]]]
    /\ armed' = FALSE
    /\ \E save \in SaveOutcomes :
        /\ stopped' = [ret |-> StopReturn(mixed_audio_path, file_buffer, save),
                       save |-> IF Saves(mixed_audio_path, file_buffer)
                                THEN save ELSE "-"]
        /\ mixed' = IF Saves(mixed_audio_path, file_buffer) /\ save = "ok"
                    THEN MixedTensor(file_buffer, samplerate)
                    ELSE mixed
    /\ UNCHANGED <<mixed_audio_path, startpos>>

\* the end of the locked section as a bug would have it: the buffers are kept
StopClearKeeps ==
    /\ lock = Control
    /\ lock' = "free"
    /\ StopMix
    /\ UNCHANGED <<queue, unfinished_tasks, samplerate, buffer_list, buffer_size,
                   file_buffer,
                   is_writing_audio, delivered, nblocks, writes, taken>>
    /\ UnchangedDiag /\ UnchangedSessions
    /\ UnchangedConsumer

\* lines 146-205: the buffers are copied and cleared, the lock is released and
\* the copies are mixed and saved
StopClear ==
    /\ lock = Control
    /\ lock' = "free"
    /\ file_buffer' = [s \in Sources |-> <<>>]
    /\ StopMix
    /\ UNCHANGED <<queue, unfinished_tasks, samplerate, buffer_list, buffer_size,
                   is_writing_audio,
                   delivered, nblocks, writes, taken>>
    /\ UnchangedDiag /\ UnchangedSessions
    /\ UnchangedConsumer

\* the recorder fed with blocks of any size, and the consumer's get
NextRecorder ==
    \/ StartRecording
    \/ \E src \in Sources : ProcessData(src, TRUE, LoudOnly)
    \/ Dequeue

InitRecorder == Init /\ modelDev = "cpu" /\ diarDev = "none"

\* the consumer thread is scheduled: a chunk on the queue ends its wait
SpecRecorderLive == InitRecorder /\ [][NextRecorder]_vars /\ WF_vars(Dequeue)

SpecRecorder == InitRecorder /\ [][NextRecorder]_vars

\* the recorder fed by its streams while the control thread starts and stops the
\* writing of the audio file
NextWriting ==
    \/ StartRecording
    \/ \E src \in Sources : ProcessData(src, FALSE, LoudOnly)
    \/ StartAudioFileWriting
    \/ StopAudioFileWriting
    \/ StopClear

SpecWriting == InitRecorder /\ [][NextWriting]_vars

\* the recorder fed with blocks of any size and any loudness
NextSilence ==
    \/ StartRecording
    \/ \E src \in Sources : ProcessData(src, TRUE, MeanAbs)

SpecSilence == InitRecorder /\ [][NextSilence]_vars

\* the recorder fed by its streams, and with blocks of any size when a call made
\* by the callback raises
NextRaising ==
    \/ StartRecording
    \/ \E src \in Sources : ProcessData(src, FALSE, LoudOnly)
    \/ \E src \in Sources : \E n \in Sizes(samplerate[src]) : \E at \in RaisingCalls :
            ProcessDataRaises(src, n, SilenceFloor, at)

SpecRaising == InitRecorder /\ [][NextRaising]_vars

(***************************************************************************)
(* The recording sessions of the application.  A session is a queue, a     *)
(* Transcriber thread and an AudioRecorder, all three made by              *)
(* _start_audio_processing_thread, and a thread that runs                  *)
(* _run_audio_processing_loop; the session's number stands for its         *)
(* objects.                                                                *)
(***************************************************************************)
UnchangedApp ==
    /\ UNCHANGED <<queue, unfinished_tasks>>
    /\ UnchangedRecorder
    /\ UnchangedConsumer

\* Application.stop_threads
StopThreads ==
    /\ app_recorder # 0
    /\ streams' = [streams EXCEPT ![app_recorder] =
                      [s \in Sources |-> IF @[s] = "none" THEN "none" ELSE "closed"]]
    /\ consumer' = [consumer EXCEPT ![app_recorder] = "joined"]
    /\ app_recorder' = 0
    /\ UNCHANGED <<leaked, failed_start, loop, loopref>>
    /\ UnchangedApp

\* Application._start_audio_processing_thread after its call of stop_threads
StartAudioProcessingThread ==
    /\ app_recorder = 0
    /\ \E r \in Sessions :
        /\ loop[r] = "none"
        /\ \A q \in Sessions : q < r => loop[q] # "none"
        /\ consumer' = [consumer EXCEPT ![r] = "alive"]
        /\ app_recorder' = r
        /\ loop' = [loop EXCEPT ![r] = "enter"]
    /\ UNCHANGED <<streams, leaked, failed_start, loopref>>
    /\ UnchangedApp

\* _run_audio_processing_loop, line 232: self.recorder is read; on None the
\* call raises AttributeError, which line 235 catches and reports
LoopRead(t) ==
    /\ loop[t] = "enter"
    /\ loopref' = [loopref EXCEPT ![t] = app_recorder]
    /\ loop' = [loop EXCEPT ![t] = IF app_recorder = 0 THEN "end" ELSE "start"]
    /\ UNCHANGED <<app_recorder, streams, leaked, failed_start, consumer>>
    /\ UnchangedApp

\* where start_recording can raise: at the opening of a stream (lines 210, 213)
\* or at its start (lines 239, 240)
StartFailures == {"open_mic", "open_loopback", "start_mic", "start_loopback"}
StartOutcomes == {"ok"} \cup StartFailures

\* the attributes start_recording has assigned when it returns or raises
Replaced(at) ==
    CASE at = "open_mic" -> {}
      [] at = "open_loopback" -> {"MIC"}
      [] OTHER -> Sources

\* AudioRecorder.start_recording: mic_stream and loopback_stream when the call
\* has returned or raised
StartedStreams(old, at) ==
    [s \in Sources |->
        IF s \notin Replaced(at) THEN old[s]
        ELSE IF at = "ok" \/ (at = "start_loopback" /\ s = "MIC") THEN "running"
        ELSE "open"]

\* the running streams whose attribute the call has assigned anew: nothing
\* refers to them any more
Overwritten(old, at) ==
    Cardinality({s \in Replaced(at) : old[s] = "running"})

\* _run_audio_processing_loop, lines 231-238: start_recording of the recorder
\* read; when it raises the error is reported and the thread returns
LoopStart(t) ==
    /\ loop[t] = "start"
    /\ \E at \in StartOutcomes :
        LET r == loopref[t] IN
        /\ streams' = [streams EXCEPT ![r] = StartedStreams(@, at)]
        /\ leaked' = [leaked EXCEPT ![r] = @ + Overwritten(streams[r], at)]
        /\ failed_start' = IF at = "ok" THEN failed_start ELSE failed_start \cup {r}
        /\ loop' = [loop EXCEPT ![t] = IF at = "ok" THEN "join" ELSE "end"]
    /\ UNCHANGED <<app_recorder, consumer, loopref>>
    /\ UnchangedApp

\* lines 242-243: the thread waits until the application has no live transcriber
LoopJoin(t) ==
    /\ loop[t] = "join"
    /\ IF app_recorder = 0 THEN TRUE ELSE consumer[app_recorder] # "alive"
    /\ loop' = [loop EXCEPT ![t] = "end"]
    /\ UNCHANGED <<app_recorder, streams, leaked, failed_start, consumer, loopref>>
    /\ UnchangedApp

NextSessions ==
    \/ StopThreads
    \/ StartAudioProcessingThread
    \/ \E t \in Sessions : LoopRead(t) \/ LoopStart(t) \/ LoopJoin(t)

SpecSessions == InitRecorder /\ [][NextSessions]_vars

(***************************************************************************)
(* The record button, the recording timer and the first statement of       *)
(* _run_audio_processing_loop.  _start_file_recording and                  *)
(* _stop_file_recording run on the main thread, in the steps between which *)
(* the other threads can run; a countdown thread queues a call of          *)
(* _on_record_button_clicked for the main thread.                          *)
(***************************************************************************)
Timers == 1..MaxTimers

\* TimerManager.timer_seconds: the configured duration
timer_seconds == MaxSeconds

\* who calls _on_record_button_clicked: the user's click, or the main loop
\* running a call queued by a countdown thread
Clickers == {"user", "timer"}

UnchangedPipeline ==
    /\ UNCHANGED <<queue, unfinished_tasks, produced, stop_event, files, job, calldev>>
    /\ UnchangedRec /\ UnchangedDev /\ UnchangedCb /\ UnchangedHist

\* the main loop takes the call to run: a queued call leaves the idle queue
Clicked(by) ==
    /\ by = "timer" => pending > 0
    /\ pending' = IF by = "timer" THEN pending - 1 ELSE pending

HasFreeTimer == \E k \in Timers : countdown[k] = "none"
FreeTimer == CHOOSE k \in Timers : countdown[k] = "none"

\* TimerManager.start_timer
StartTimer(on) ==
    IF on
    THEN /\ remaining_seconds' = timer_seconds
         /\ countdown' = [countdown EXCEPT ![FreeTimer] = "loop"]
    ELSE UNCHANGED <<remaining_seconds, countdown>>

\* _on_record_button_clicked while no recording is active:
\* _start_file_recording, lines 1226-1227
StartBegin(by) ==
    /\ pc[Control] = "idle"
    /\ ~is_recording
    /\ timer_enabled => HasFreeTimer
    /\ Clicked(by)
    /\ starter' = by
    /\ pc' = [pc EXCEPT ![Control] = "wait"]
    /\ UNCHANGED <<is_recording, recording_enabled, assign, timer_enabled,
                   remaining_seconds, countdown, started_by_timer>>
    /\ UnchangedPipeline

\* _start_file_recording, lines 1237-1242: no device is selected
StartNoDevices ==
    /\ pc[Control] = "wait"
    /\ starter' = "-"
    /\ pc' = [pc EXCEPT ![Control] = "idle"]
    /\ UNCHANGED <<is_recording, recording_enabled, assign, timer_enabled,
                   remaining_seconds, countdown, pending, started_by_timer>>
    /\ UnchangedPipeline

\* _on_record_button_clicked, lines 1582-1588, run by the main loop iterations
\* of the wait for the devices: is_starting is reset and _start_file_recording
\* returns False (lines 1249-1268)
ClickWhileStarting(by) ==
    /\ pc[Control] = "wait"
    /\ Clicked(by)
    /\ starter' = "-"
    /\ pc' = [pc EXCEPT ![Control] = "idle"]
    /\ UNCHANGED <<is_recording, recording_enabled, assign, timer_enabled,
                   remaining_seconds, countdown, started_by_timer>>
    /\ UnchangedPipeline

\* _start_file_recording, lines 1270-1279; new: _start_audio_processing_thread
\* is called, which makes a Transcriber (recording_enabled False) and starts
\* the thread of _run_audio_processing_loop
StartSession(new) ==
    /\ pc[Control] = "wait"
    /\ IF new
       THEN /\ assign \in {"none", "passed"}
            /\ recording_enabled' = FALSE
            /\ assign' = "read"
       ELSE /\ assign # "none"
            /\ UNCHANGED <<recording_enabled, assign>>
    /\ pc' = [pc EXCEPT ![Control] = "ready"]
    /\ UNCHANGED <<is_recording, starter, timer_enabled, remaining_seconds, countdown,
                   pending, started_by_timer>>
    /\ UnchangedPipeline

\* _start_file_recording, lines 1282-1301: is_recording is set, the timer started
StartSetRecording ==
    /\ pc[Control] = "ready"
    /\ is_recording' = TRUE
    /\ StartTimer(timer_enabled)
    /\ started_by_timer' = (started_by_timer \/ starter = "timer")
    /\ pc' = [pc EXCEPT ![Control] = "started"]
    /\ UNCHANGED <<recording_enabled, assign, starter, timer_enabled, pending>>
    /\ UnchangedPipeline

\* _start_file_recording, lines 1303-1335: the meeting record, the folder or the
\* transcript file cannot be made
StartFails ==
    /\ pc[Control] = "started"
    /\ is_recording' = FALSE
    /\ starter' = "-"
    /\ pc' = [pc EXCEPT ![Control] = "idle"]
    /\ UNCHANGED <<recording_enabled, assign, timer_enabled, remaining_seconds,
                   countdown, pending, started_by_timer>>
    /\ UnchangedPipeline

\* _start_file_recording, lines 1343-1368
StartEnables ==
    /\ pc[Control] = "started"
    /\ recording_enabled' = TRUE
    /\ starter' = "-"
    /\ pc' = [pc EXCEPT ![Control] = "idle"]
    /\ UNCHANGED <<is_recording, assign, timer_enabled, remaining_seconds, countdown,
                   pending, started_by_timer>>
    /\ UnchangedPipeline

\* _on_record_button_clicked while a recording is active: _stop_file_recording,
\* lines 1381-1398: is_recording is reset, the timer is set back
StopBegin(by) ==
    /\ pc[Control] = "idle"
    /\ is_recording
    /\ Clicked(by)
    /\ is_recording' = FALSE
    /\ remaining_seconds' = timer_seconds
    /\ pc' = [pc EXCEPT ![Control] = "stopping"]
    /\ UNCHANGED <<recording_enabled, assign, starter, timer_enabled, countdown,
                   started_by_timer>>
    /\ UnchangedPipeline

\* _stop_file_recording, lines 1431-1433 to the return
StopDisables ==
    /\ pc[Control] = "stopping"
    /\ recording_enabled' = FALSE
    /\ pc' = [pc EXCEPT ![Control] = "idle"]
    /\ UNCHANGED <<is_recording, assign, starter, timer_enabled, remaining_seconds,
                   countdown, pending, started_by_timer>>
    /\ UnchangedPipeline

\* _run_audio_processing_loop, line 227: bool(self.is_recording) is evaluated
AssignRead ==
    /\ assign = "read"
    /\ assign' = IF is_recording THEN "write_true" ELSE "write_false"
    /\ UNCHANGED <<pc, is_recording, recording_enabled, starter, timer_enabled,
                   remaining_seconds, countdown, pending, started_by_timer>>
    /\ UnchangedPipeline

\* line 227: the value the statement stores
AssignedValue(a) == a = "write_true"

\* _run_audio_processing_loop, line 227: the value is stored in the Transcriber
AssignWrite ==
    /\ assign \in {"write_true", "write_false"}
    /\ recording_enabled' = AssignedValue(assign)
    /\ assign' = "passed"
    /\ UNCHANGED <<pc, is_recording, starter, timer_enabled, remaining_seconds,
                   countdown, pending, started_by_timer>>
    /\ UnchangedPipeline

\* TimerManager.on_timer_enabled_toggled
ToggleTimer(on) ==
    /\ pc[Control] = "idle"
    /\ timer_enabled # on
    /\ (on /\ is_recording) => HasFreeTimer
    /\ timer_enabled' = on
    /\ StartTimer(on /\ is_recording)
    /\ UNCHANGED <<pc, is_recording, recording_enabled, assign, starter, pending,
                   started_by_timer>>
    /\ UnchangedPipeline

\* TimerManager._countdown, line 84
Expired == is_recording /\ timer_enabled /\ remaining_seconds <= 0

\* TimerManager._countdown, line 79: the test of the while loop
CountdownCheck(k) ==
    /\ countdown[k] = "loop"
    /\ countdown' = [countdown EXCEPT
                        ![k] = IF is_recording /\ timer_enabled /\ remaining_seconds > 0
                               THEN "sleep" ELSE "final"]
    /\ UNCHANGED <<pc, is_recording, recording_enabled, assign, starter, timer_enabled,
                   remaining_seconds, pending, started_by_timer>>
    /\ UnchangedPipeline

\* TimerManager._countdown, lines 80-82: one second has passed
CountdownTick(k) ==
    /\ countdown[k] = "sleep"
    /\ remaining_seconds' = remaining_seconds - 1
    /\ countdown' = [countdown EXCEPT ![k] = "loop"]
    /\ UNCHANGED <<pc, is_recording, recording_enabled, assign, starter, timer_enabled,
                   pending, started_by_timer>>
    /\ UnchangedPipeline

\* TimerManager._countdown, lines 84-88: on expiry a call of
\* _on_record_button_clicked is queued for the main thread; the thread ends
CountdownExpire(k) ==
    /\ countdown[k] = "final"
    /\ Expired => pending < MaxPending
    /\ pending' = IF Expired THEN pending + 1 ELSE pending
    /\ countdown' = [countdown EXCEPT ![k] = "none"]
    /\ UNCHANGED <<pc, is_recording, recording_enabled, assign, starter, timer_enabled,
                   remaining_seconds, started_by_timer>>
    /\ UnchangedPipeline

NextControl ==
    \/ \E by \in Clickers : StartBegin(by) \/ ClickWhileStarting(by) \/ StopBegin(by)
    \/ StartNoDevices
    \/ \E new \in BOOLEAN : StartSession(new)
    \/ StartSetRecording
    \/ StartFails
    \/ StartEnables
    \/ StopDisables
    \/ AssignRead
    \/ AssignWrite
    \/ \E on \in BOOLEAN : ToggleTimer(on)
    \/ \E k \in Timers : CountdownCheck(k) \/ CountdownTick(k) \/ CountdownExpire(k)

SpecControl == InitRecorder /\ [][NextControl]_vars

(***************************************************************************)
(* The claims.                                                             *)
(***************************************************************************)
Done(t) == pc[t] \in {"fin", "caught"}
Raised(e) == e.out \in {"exc", "oom", "raise"}
Whole == trace \o segtr

\* C1: at most one speech/diarization engine invocation is in progress at any
\* time, whatever the interleaving of the consumer with the callers of
\* transcribe_recording_file.
C1_AtMostOneEngineCall ==
    Cardinality({t \in Threads : pc[t] \in EnginePcs}) <= 1

\* C2: an exception raised while a dequeued chunk is processed never ends the
\* consumer: the thread ends only once the stop flag is set, an exception that
\* reaches run leaves the chunk without a further call or callback, and from the
\* head of the loop the consumer goes on to the queue while the flag is not set.
C2_ExceptionNeverEndsConsumer ==
    /\ [](pc[Consumer] = "done" => stop_event)
    /\ [][pc[Consumer] = "caught" =>
            /\ pc'[Consumer] \in {"caught", "loop"}
            /\ Whole' \in {Whole, <<>>}]_vars
    /\ [][(pc[Consumer] = "loop" /\ ~stop_event /\ pc'[Consumer] # "loop")
            => pc'[Consumer] = "get"]_vars

\* an exception of the engine or of the callback has reached run
C2_Witness ==
    /\ pc[Consumer] = "caught"
    /\ trace # <<>>
    /\ Raised(trace[Len(trace)])
    /\ ~stop_event

\* C3: whenever an engine call made for a chunk fails with accelerator
\* out-of-memory, the speech engine and the diarizer are both on the CPU
\* afterwards.
C3_OomMovesBothToCpu ==
    (\E i \in 1..Len(Whole) : Whole[i].out = "oom")
        => (modelDev = "cpu" /\ diarDev \in {"cpu", "none"})

\* C4: an out-of-memory failure of the first engine call for a chunk causes
\* exactly one retry of the chunk, on the CPU; if the retry fails too, nothing
\* is emitted for the chunk and the consumer goes on.
C4_OomRetriedOnceOnCpu ==
    (Done(Consumer) /\ trace # <<>> /\ trace[1].out = "oom")
        => LET retries == SelectSeq(trace, LAMBDA e : e.k = "cpu")
           IN  /\ Len(retries) = 1
               /\ retries[1].dev = "cpu"
               /\ (Raised(retries[1]) => Cbs(trace) = <<>>)
               /\ pc[Consumer] = "fin"

\* C5: the execution mode is monotone: an engine that is on the CPU stays on the
\* CPU, an engine the out-of-memory handler has moved is on the CPU, and every
\* engine call in flight runs on the device its engine is on.
C5_DeviceMonotone ==
    /\ [][/\ modelDev = "cpu" => modelDev' = "cpu"
          /\ diarDev = "cpu" => diarDev' = "cpu"]_vars
    /\ []/\ "model" \in moved => modelDev = "cpu"
         /\ "diar" \in moved => diarDev = "cpu"
         /\ pc[Consumer] \in EnginePcs \ {"diar"} => calldev[Consumer] = modelDev
         /\ pc[Consumer] = "diar" => calldev[Consumer] = diarDev

\* after the move, the first engine call for a later chunk runs on the CPU
C5_Witness ==
    /\ moved = {"model", "diar"}
    /\ pc[Consumer] \in {"std", "diar"}
    /\ calldev[Consumer] = "cpu"

\* C6: a MIC chunk whose RMS is below the silence threshold causes no engine
\* call and no text callback.
C6_SilentMicNeverReachesEngine ==
    (job[Consumer].src = "MIC" /\ Silent(job[Consumer].amp))
        => /\ pc[Consumer] \notin EnginePcs
           /\ Whole = <<>>

\* a silent MIC chunk has gone through _transcribe_standard while recording
C6_Witness ==
    /\ job[Consumer].src = "MIC"
    /\ Silent(job[Consumer].amp)
    /\ gate = "enabled"
    /\ pc[Consumer] = "fin"

\* C7: a chunk dequeued while recording_enabled is false is discarded without
\* an engine call, a diarizer call or a text callback, and the consumer goes on
\* to the head of its loop; a chunk in the queue is taken by the waiting consumer
\* whatever the flag, and a running consumer empties the queue unless it is
\* stopped.
C7_DisabledChunkDiscarded ==
    /\ [](gate = "disabled" => (pc[Consumer] = "fin" /\ Whole = <<>> /\ res = <<>>))
    /\ []((pc[Consumer] = "get" /\ queue # <<>>) => ENABLED Get)
    /\ (queue # <<>>) ~> (queue = <<>> \/ stop_event)
    /\ [][(gate = "disabled" /\ pc'[Consumer] # pc[Consumer])
            => (pc'[Consumer] = "loop" /\ Len(queue') = Len(queue))]_vars

\* a chunk has been dequeued and discarded while another waits in the queue
C7_Witness ==
    /\ gate = "disabled"
    /\ pc[Consumer] = "fin"
    /\ job[Consumer] # NoJob
    /\ queue # <<>>

ZeroSegments ==
    /\ trace # <<>>
    /\ trace[1].k = "diar"
    /\ trace[1].out = "segs"
    /\ job[Consumer].segs = <<>>

\* C8: when the diarizer returns zero segments, exactly one transcription call is
\* made, on the whole chunk, and its non-empty text is emitted with source
\* LOOPBACK and no speaker label.
C8_ExactlyOneWholeChunkCall ==
    (Done(Consumer) /\ ZeroSegments)
        => LET calls == Tail(Calls(trace))
           IN  /\ Len(calls) = 1
               /\ calls[1].k = "whole"
               /\ calls[1].out = "text" =>
                    /\ Len(Cbs(trace)) = 1
                    /\ Cbs(trace)[1].src = "LOOPBACK"
                    /\ Cbs(trace)[1].spk = "None"

Diarized ==
    /\ trace # <<>>
    /\ trace[1].k = "diar"
    /\ job[Consumer].segs # <<>>

\* C9: within one diarized chunk, a transcription failure on a segment does not
\* keep the remaining segments from being transcribed: once the segments are
\* known no exception leaves the chunk, at its end every segment has been
\* visited, every segment of sufficient length has been transcribed, and every
\* segment with a call that returned non-empty text has had its callback.
C9_SegmentFailureIsolated ==
    Diarized =>
        /\ pc[Consumer] # "caught"
        /\ Len(trace) = 1
        /\ Summary(segtr) # "lost"
        /\ pc[Consumer] = "fin" =>
             /\ Len(res) = Len(job[Consumer].segs)
             /\ \A i \in 1..Len(res) :
                  /\ res[i] # "lost"
                  /\ (res[i] = "short") <=> TooShort(job[Consumer].segs[i])

\* segment 1 of 2 failed on both of its calls, segment 2 has its transcript
C9_Witness ==
    /\ pc[Consumer] = "fin"
    /\ Diarized
    /\ res = <<"failed", "cb">>

\* C10: a segment whose first transcription call raises is retried exactly once
\* with the relaxed parameters; a segment receives at most two engine calls and
\* at most one text callback.
C10_SegmentRetriedOnce ==
    /\ Len(Calls(segtr)) <= 2
    /\ Len(Cbs(segtr)) <= 1
    /\ (pc[Consumer] = "for" /\ segtr # <<>> /\ Raised(segtr[1]))
         => (Len(Calls(segtr)) = 2 /\ Calls(segtr)[2].k = "segfb")

MinSegmentSamples == WHISPER_SAMPLE_RATE \div 5
BelowFloor(seg) == SliceLen(ChunkFrames, seg) < MinSegmentSamples

\* C11: a speaker segment of fewer than 3200 samples (0.2 s at 16 kHz) never
\* reaches the engine and never produces a text callback: no engine call is in
\* flight for it, no call or callback is recorded for it, and it is passed over.
C11_ShortSegmentNeverTranscribed ==
    LET j == job[Consumer]
    IN  /\ pc[Consumer] \in {"seg", "segfb"} => ~BelowFloor(j.segs[j.idx])
        /\ segtr # <<>> => ~BelowFloor(j.segs[j.idx])
        /\ \A i \in 1..Len(res) : BelowFloor(j.segs[i]) => res[i] = "short"

\* a segment of 3184 samples has been passed over and a later segment, whose
\* bounds truncate to 3200 samples, has been transcribed
C11_Witness ==
    /\ pc[Consumer] = "fin"
    /\ Diarized
    /\ Len(res) >= 2
    /\ res[1] = "short"
    /\ res[2] = "cb"

\* C12: the text callback is invoked only with non-empty text and at most once
\* per successful engine call: every callback directly follows an engine call
\* that returned non-empty text, on every path; a call whose text is empty, or
\* that raised, is followed by no callback.
C12_CallbackOnlyForText ==
    \A i \in 1..Len(Whole) :
        Whole[i].k = "cb" =>
            /\ i > 1
            /\ Whole[i - 1].k \in EnginePcs \ {"diar"}
            /\ Whole[i - 1].out = "text"

\* the retry on the CPU returned empty text and the chunk ended without callback
C12_Witness ==
    /\ pc[Consumer] = "fin"
    /\ trace # <<>>
    /\ trace[Len(trace)].k = "cpu"
    /\ trace[Len(trace)].out = "empty"

Started(src) == samplerate[src] # 0
ChunksOf(src) == SelectSeq(taken \o queue, LAMBDA c : c.src = src)
NativeOf(src) == [i \in 1..Len(ChunksOf(src)) |-> ChunksOf(src)[i].native]

\* C13: after every driver callback has returned, the source's backlog holds
\* strictly fewer than frames_per_chunk samples, whatever the size of the block.
C13_BacklogBelowOneChunk ==
    \A src \in Sources :
        (lock = "free" /\ Started(src))
            => buffer_size[src] < samplerate[src] * CHUNK_SECONDS

\* C14: N x frames_per_chunk samples given to one source in a single call on an
\* empty backlog enqueue exactly N chunks and leave a backlog of zero samples.
C14_SinglePushYieldsNChunks ==
    \A src \in Sources : \A N \in 1..2 :
        (/\ Started(src)
         /\ nblocks[src] = 1
         /\ delivered[src] = N * samplerate[src] * CHUNK_SECONDS)
            => (Len(ChunksOf(src)) = N /\ buffer_size[src] = 0)

\* C15: the samples of a source, delivered in blocks of any sizes, enqueue the
\* same chunks and leave the same backlog as the same samples delivered in one
\* block.
C15_IncrementInvariant ==
    \A src \in Sources :
        (Started(src) /\ delivered[src] > 0)
            => LET one == Chunked(<<>>, 0, <<[pos |-> 0, n |-> delivered[src]]>>,
                                  samplerate[src])
               IN  /\ NativeOf(src) = one.out
                   /\ Concatenate(buffer_list[src]) = Concatenate(one.list)
                   /\ buffer_size[src] = one.size

\* C16: at every native rate, each enqueued chunk is cut from exactly
\* int(rate x CHUNK_SECONDS) native samples and has 16000 x 15 = 240000 samples
\* once resampled (unchanged at 16000 Hz); at 44100 Hz, 661500 samples become
\* 240000.
C16_ChunkIsFifteenSeconds ==
    \A i \in 1..Len(taken \o queue) :
        LET c == (taken \o queue)[i]
        IN  /\ ArrLen(c.native) = samplerate[c.src] * CHUNK_SECONDS
            /\ c.len = WHISPER_SAMPLE_RATE * CHUNK_SECONDS
            /\ c.len = 240000
            /\ samplerate[c.src] = 44100 => ArrLen(c.native) = 661500
            /\ samplerate[c.src] = WHISPER_SAMPLE_RATE => c.len = ArrLen(c.native)

\* a loopback chunk recorded at 44100 Hz is on the queue
C16_Witness ==
    /\ samplerate["LOOPBACK"] = 44100
    /\ \E i \in 1..Len(queue) : queue[i].src = "LOOPBACK"

\* C17, as claimed: with the microphone at 48000 Hz, each MIC chunk contains
\* exactly 240000 samples before resampling and 240000 samples after.
C17_MicChunk240000Before ==
    samplerate["MIC"] = 48000 =>
        \A i \in 1..Len(ChunksOf("MIC")) :
            /\ ArrLen(ChunksOf("MIC")[i].native) = 240000
            /\ ChunksOf("MIC")[i].len = 240000

\* C17, amended: with the microphone at 48000 Hz, each MIC chunk contains exactly
\* 720000 samples before resampling and 240000 samples after.
C17_MicChunk720000Before ==
    samplerate["MIC"] = 48000 =>
        \A i \in 1..Len(ChunksOf("MIC")) :
            /\ ArrLen(ChunksOf("MIC")[i].native) = 720000
            /\ ChunksOf("MIC")[i].len = 240000

\* a MIC chunk recorded at 48000 Hz has been enqueued
C17_Witness ==
    /\ samplerate["MIC"] = 48000
    /\ ChunksOf("MIC") # <<>>

\* C18: the chunks of one source are put on the queue in the order of their
\* samples and dequeued in that order, however the callbacks of the two sources
\* interleave: the k-th chunk of a source, counting the dequeued ones first,
\* holds the k-th run of frames_per_chunk samples of its stream.
C18_PerSourceOrder ==
    \A src \in Sources :
        \A k \in 1..Len(ChunksOf(src)) :
            ChunksOf(src)[k].native =
                <<[pos |-> (k - 1) * samplerate[src] * CHUNK_SECONDS,
                   n |-> samplerate[src] * CHUNK_SECONDS]>>

\* two MIC chunks have been dequeued with a LOOPBACK chunk between them
C18_Witness ==
    /\ Len(taken) = 3
    /\ taken[1].src = "MIC"
    /\ taken[2].src = "LOOPBACK"
    /\ taken[3].src = "MIC"

\* C19: the enqueue of a completed chunk never blocks and never drops the chunk,
\* whatever the queue length and however long the consumer does not dequeue: a
\* callback can always run to its end, a cut chunk makes the queue one longer,
\* and every delivered sample is in the backlog or in an enqueued chunk.
C19_PutNeverBlocksNorDrops ==
    /\ [](\A src \in Sources :
            (Started(src) /\ lock = "free" /\ nblocks[src] < MaxBlocks)
                => \A n \in Sizes(samplerate[src]) : CallbackRuns(src, n))
    /\ [](\A src \in Sources :
            Started(src) =>
                delivered[src] = buffer_size[src]
                    + Len(ChunksOf(src)) * samplerate[src] * CHUNK_SECONDS)
    /\ [][\A src \in Sources :
            buffer_size'[src] < buffer_size[src] + delivered'[src] - delivered[src]
                => Len(queue') + Len(taken') = Len(queue) + Len(taken) + 1]_vars

\* three chunks wait on the queue and the consumer has taken none
C19_Witness ==
    /\ Len(queue) >= 3
    /\ taken = <<>>

\* C20: whenever file writing is inactive (is_writing_audio is false and the
\* recorder's lock is free), mic_file_buffer and loopback_file_buffer are empty.
C20_InactiveBuffersEmpty ==
    (~is_writing_audio /\ lock = "free")
        => \A src \in Sources : file_buffer[src] = <<>>

\* the writing was started and stopped while both streams delivered blocks
C20_Witness ==
    /\ writes = 1
    /\ ~is_writing_audio
    /\ lock = "free"
    /\ \A src \in Sources : nblocks[src] > 0

\* C26: cancellation is cooperative and bounded.  Once the stop flag is set the
\* consumer ends after its current queue wait or its chunk in flight: the wait
\* is entered only from the head of the loop with the flag not set, every
\* dequeue leaves the wait, and with the flag set the head of the loop leads
\* only to the end of the thread, so that at most one chunk is dequeued after
\* the flag was set; the ended thread takes nothing from the queue; and a
\* running consumer does end once the flag is set.
C26_StopEndsConsumer ==
    /\ [][(pc'[Consumer] = "get" /\ pc[Consumer] # "get")
            => (pc[Consumer] = "loop" /\ ~stop_event)]_vars
    /\ [][Len(queue') < Len(queue)
            => (/\ pc[Consumer] = "get"
                /\ pc'[Consumer] # "get"
                /\ Len(queue') = Len(queue) - 1)]_vars
    /\ [][(stop_event /\ pc[Consumer] = "loop")
            => pc'[Consumer] \in {"loop", "done"}]_vars
    /\ [][pc[Consumer] = "done"
            => (pc'[Consumer] = "done" /\ Len(queue') >= Len(queue))]_vars
    /\ stop_event ~> (pc[Consumer] = "done")

\* the consumer has ended and a chunk is left on the queue
C26_Witness ==
    /\ stop_event
    /\ pc[Consumer] = "done"
    /\ queue # <<>>

\* C30: a LOOPBACK chunk dequeued while recording is enabled gets, with no
\* diarizer, exactly one direct transcription call whatever its RMS; with a
\* diarizer it goes through diarize_and_transcribe and never through the direct
\* path.
C30_LoopbackWithoutGate ==
    (gate = "enabled" /\ job[Consumer].src = "LOOPBACK") =>
        IF diarDev = "none"
        THEN \/ pc[Consumer] = "std" /\ trace = <<>>
             \/ /\ Done(Consumer)
                /\ Len(Calls(trace)) = 1
                /\ trace[1].k = "std"
        ELSE /\ pc[Consumer] # "std"
             /\ \A i \in 1..Len(trace) : trace[i].k # "std"
             /\ pc[Consumer] = "diar" \/ (trace # <<>> /\ trace[1].k = "diar")

\* a LOOPBACK chunk with an RMS below the threshold has had its direct call
C30_Witness ==
    /\ gate = "enabled"
    /\ job[Consumer].src = "LOOPBACK"
    /\ Silent(job[Consumer].amp)
    /\ diarDev = "none"
    /\ pc[Consumer] = "fin"
    /\ Len(trace) >= 1
    /\ trace[1].k = "std"

\* the chunks put on the queue so far, in the order of their puts
Enqueued == taken \o queue

\* C29: every chunk put on the queue is dequeued exactly once: a dequeue takes
\* the oldest chunk off the queue, so that no chunk is handed over twice, and
\* the queue of a running consumer is emptied again and again, so that every
\* chunk on it is eventually dequeued.
C29_DequeuedExactlyOnce ==
    /\ [](\A i, k \in 1..Len(Enqueued) : i # k => Enqueued[i] # Enqueued[k])
    /\ [][Len(taken') # Len(taken)
            => (/\ queue # <<>>
                /\ taken' = Append(taken, Head(queue))
                /\ queue' = Tail(queue))]_vars
    /\ (queue # <<>>) ~> (queue = <<>>)

\* two chunks were put on the queue and both have been dequeued
C29_Witness ==
    /\ Len(taken) >= 2
    /\ queue = <<>>

\* the blocks are the samples from..to-1 of the stream, each once and in order
Tiles(blocks, from, to) ==
    Concatenate(blocks) = IF to > from THEN <<[pos |-> from, n |-> to - from]>>
                          ELSE <<>>

\* C21: start, stop with its snapshot and the callbacks' appends are atomic with
\* respect to each other: the snapshot of a stop holds, per source, every block
\* delivered between the last start before it and that stop, once and in
\* arrival order, and no block delivered before that start or after that stop;
\* a stop that follows no start has an empty snapshot; and while the writing is
\* active the file buffer holds the blocks delivered since the start.
C21_SnapshotAtomic ==
    \A src \in Sources :
        /\ Tiles(buffer_copy[src], window[src].from, window[src].to)
        /\ (armed /\ lock = "free")
              => Tiles(file_buffer[src], startpos[src], delivered[src])

\* each source delivered a block between the start and the stop, the microphone
\* one before the start and the loopback one after the stop
C21_Witness ==
    /\ lock = "free"
    /\ ~armed
    /\ window["MIC"].from > 0
    /\ Len(buffer_copy["MIC"]) = 1
    /\ Len(buffer_copy["LOOPBACK"]) = 1
    /\ delivered["LOOPBACK"] > window["LOOPBACK"].to

\* C22: stop_audio_file_writing does not raise and leaves the recorder inactive
\* with empty file buffers, and it returns None when the path was never set,
\* when no block was captured since the last start and when the save fails.
C22_StopReturnsNone ==
    (lock = "free" /\ ~armed /\ stopped.ret # "-") =>
        /\ stopped.ret \in {"None", mixed_audio_path}
        /\ ~is_writing_audio
        /\ \A src \in Sources : file_buffer[src] = <<>>
        /\ (\/ mixed_audio_path = "none"
            \/ \A src \in Sources : buffer_copy[src] = <<>>
            \/ stopped.save = "raise") => stopped.ret = "None"

\* blocks of both sources were captured and the save has failed
C22_Witness ==
    /\ lock = "free"
    /\ ~armed
    /\ stopped.save = "raise"
    /\ stopped.ret = "None"
    /\ \A src \in Sources : buffer_copy[src] # <<>>

\* C23: the saved file has two channels of equal length max(mic_len,
\* loopback_len), the lengths of the two tracks at the rate of the mix; channel
\* 0 is the microphone track and channel 1 the loopback track, each followed by
\* zeros only; with no loopback data channel 1 is all zeros, as long as the
\* microphone track.
C23_TwoChannelsEqualLength ==
    (lock = "free" /\ ~armed /\ stopped.ret \notin {"-", "None"}) =>
        LET mic_len == TrackLen(buffer_copy["MIC"], samplerate["MIC"])
            loopback_len == TrackLen(buffer_copy["LOOPBACK"], samplerate["LOOPBACK"])
        IN  /\ Len(mixed) = 2
            /\ \A c \in 1..2 : mixed[c].n + mixed[c].zeros = Max(mic_len, loopback_len)
            /\ mixed[1].track = "MIC"
            /\ mixed[1].samples = Concatenate(buffer_copy["MIC"])
            /\ mixed[1].n = mic_len
            /\ mixed[2].track = "LOOPBACK"
            /\ mixed[2].samples = Concatenate(buffer_copy["LOOPBACK"])
            /\ mixed[2].n = loopback_len
            /\ buffer_copy["LOOPBACK"] = <<>>
                  => (mixed[2].n = 0 /\ mixed[2].zeros = mic_len)

\* a file was saved from microphone blocks only
C23_Witness ==
    /\ lock = "free"
    /\ ~armed
    /\ stopped.ret = "mixed.wav"
    /\ buffer_copy["MIC"] # <<>>
    /\ buffer_copy["LOOPBACK"] = <<>>
    /\ mixed[2].zeros > 0

\* C27: loopback_silence_warning_shown only changes from false to true; the
\* diagnostic is printed at most once, and only by a LOOPBACK callback whose
\* mean absolute amplitude is below the floor; and the chunks put on the queue
\* are the runs of frames_per_chunk samples of each stream whether the flag is
\* set or not.
C27_SilenceFlagSticky ==
    /\ [][loopback_silence_warning_shown => loopback_silence_warning_shown']_vars
    /\ [](Len(warned) <= 1)
    /\ [](loopback_silence_warning_shown <=> warned # <<>>)
    /\ [](\A i \in 1..Len(warned) :
            warned[i].src = "LOOPBACK" /\ warned[i].mean_abs < SilenceFloor)
    /\ [](\A src \in Sources : \A k \in 1..Len(ChunksOf(src)) :
            /\ ChunksOf(src)[k].native =
                 <<[pos |-> (k - 1) * FramesPerChunk(samplerate[src]),
                    n |-> FramesPerChunk(samplerate[src])]>>
            /\ ChunksOf(src)[k].len = CHUNK_SECONDS * WHISPER_SAMPLE_RATE)

\* the diagnostic was printed for a block just below the floor and the loopback
\* stream has two chunks on the queue
C27_Witness ==
    /\ loopback_silence_warning_shown
    /\ warned[1].mean_abs = SilenceFloor - 1
    /\ Len(ChunksOf("LOOPBACK")) = 2

\* C28: no error raised inside a driver callback leaves mic_callback or
\* loopback_callback.
C28_CallbackErrorsSwallowed == escaped = {}

\* the streams of recorder r that run
Running(r) == Cardinality({s \in Sources : streams[r][s] = "running"}) + leaked[r]

\* C24: when start_recording has failed, neither stream of that recorder is
\* open or running.
C24_FailedStartLeavesNothing ==
    \A r \in failed_start :
        /\ \A s \in Sources : streams[r][s] \in {"none", "closed"}
        /\ leaked[r] = 0

\* C25: while the streams of a session run, no other session has a running
\* stream or a live consumer.
C25_OneSessionAtATime ==
    \A r \in Sessions : \A q \in Sessions \ {r} :
        Running(r) > 0 => (Running(q) = 0 /\ consumer[q] # "alive")

\* C32: whenever the recorder lock is free, the size attribute of each source
\* equals the number of samples held in the source's backlog list, after any
\* sequence of callbacks, a callback in which the resampling raised after the
\* chunk was cut off included.
C32_SizeMatchesBacklog ==
    lock = "free"
        => \A src \in Sources :
               buffer_size[src] = ArrLen(Concatenate(buffer_list[src]))

\* C33: chunking neither loses, duplicates nor reorders samples: per source,
\* whenever the lock is free, the native slices of the chunks enqueued so far
\* followed by the backlog are the blocks delivered so far, each sample once
\* and in order, and every enqueued chunk is cut from exactly frames_per_chunk
\* samples.
C33_ChunkingConserves ==
    \A src \in Sources :
        (lock = "free" /\ Started(src))
            => /\ Tiles(NativeOf(src) \o buffer_list[src], 0, delivered[src])
               /\ \A i \in 1..Len(ChunksOf(src)) :
                      ArrLen(ChunksOf(src)[i].native) = FramesPerChunk(samplerate[src])

\* the consumer holds a dequeued item for which it has not yet called task_done
Holding == IF pc[Consumer] \in {"loop", "get", "done"} THEN 0 ELSE 1

\* C34: the consumer calls task_done exactly once for every item it dequeues,
\* on every path (chunk discarded, processing returned, exception caught), and
\* never after a dequeue that timed out: the queue's count of unfinished tasks
\* is the number of queued items plus the one the consumer holds, never
\* negative, and zero when nothing is queued and nothing is held.
C34_TaskDoneOncePerItem ==
    /\ unfinished_tasks = Len(queue) + Holding
    /\ unfinished_tasks >= 0

\* every chunk was put and dequeued, the last one finished, the consumer is
\* back at the head of its loop
C34_Witness ==
    /\ produced = MaxChunks
    /\ queue = <<>>
    /\ pc[Consumer] = "loop"
    /\ unfinished_tasks = 0

\* C36: transcribe_recording_file leaves text_callback as it found it: on every
\* way out of the call, the one taken when the diarization or the transcription
\* of the file raises included, text_callback is the callback the call found
\* and the output file the call opened is closed.
C36_CallbackRestoredFileClosed ==
    \A t \in FileThreads :
        exited[t] # "-" => (exited[t] = "same" /\ output_file[t] # "open")

\* the callbacks that write to the output file of a transcribe_recording_file
FileCallbacks == {FileCb(t) : t \in FileThreads}

\* C37: the file callback that transcribe_recording_file installs is invoked
\* only with results of the file's own transcription: the transcript of a live
\* chunk the consumer thread is still processing when the recording stops is
\* never delivered to it.
C37_LiveChunkNotToFileCallback ==
    \A i \in 1..Len(Whole) :
        Whole[i].k = "cb" => Whole[i].via \notin FileCallbacks

\* the consumer is processing the chunk it holds
InChunk(p) == p \in EnginePcs \cup {"for"}

\* the consumer is in the loop over the segments of the chunk
InSegments(p) == p \in {"for", "seg", "segfb"}

\* C31: transcripts are emitted in processing order: the text callbacks of one
\* diarized chunk occur in the diarizer's segment order (a callback made in the
\* loop over the segments is for the segment at the loop's position in the
\* diarizer's list, and that position only moves forward, one segment at a
\* time), and every text callback for a chunk occurs before any text callback
\* for a chunk dequeued later (callbacks are made only while the chunk is
\* being processed, and the next chunk is dequeued only after that).
C31_CallbacksInProcessingOrder ==
    /\ [][(segtr' # <<>> /\ Cbs(segtr') # Cbs(segtr))
            => /\ pc[Consumer] \in {"seg", "segfb"}
               /\ job'[Consumer] = job[Consumer]
               /\ Cbs(segtr')[Len(Cbs(segtr'))].spk
                      = job[Consumer].segs[job[Consumer].idx].spk]_vars
    /\ [][(InSegments(pc[Consumer]) /\ InSegments(pc'[Consumer]))
            => /\ job'[Consumer].segs = job[Consumer].segs
               /\ job'[Consumer].idx \in {job[Consumer].idx, job[Consumer].idx + 1}]_vars
    /\ [][(Whole' # <<>> /\ Cbs(Whole') # Cbs(Whole))
            => InChunk(pc[Consumer])]_vars
    /\ [](Whole # <<>> => Holding = 1)
    /\ [][Len(queue') < Len(queue)
            => (pc[Consumer] = "get" /\ Whole = <<>>)]_vars

\* the callback of the second segment of a chunk has been made after the
\* callback of its first segment
C31_Witness ==
    /\ pc[Consumer] = "for"
    /\ job[Consumer].idx = 2
    /\ res = <<"cb">>
    /\ Cbs(segtr) # <<>>

\* C35: once a start or a stop of a recording has completed and the thread of
\* _run_audio_processing_loop has passed its first assignment, the consumer's
\* recording_enabled equals the application's is_recording, however the steps
\* of _start_file_recording and _stop_file_recording (the returns of a failed
\* start included) interleave with that assignment.
C35_FlagFollowsRecording ==
    (pc[Control] = "idle" /\ assign = "passed")
        => recording_enabled = is_recording

\* C38: a timer expiry only ever stops a recording: the call of
\* _on_record_button_clicked queued by a countdown thread never starts a
\* recording, whether the user has clicked stop in between or a second
\* countdown thread was started by re-toggling the timer during the recording.
C38_TimerOnlyStops == ~started_by_timer

====
